---- MODULE Spec2Model ----
(***************************************************************************)
(* ViewMapper MCP server (viewmapper-mcp-server/mcp_server.py).            *)
(*                                                                         *)
(* The model has three specifications over one set of variables:           *)
(*   Spec            call_tool invoked serially (one call in flight),      *)
(*   SpecConcurrent  call_tool invoked from several threads at once,       *)
(*   SpecCompose     build_prompt_with_history applied to drawn inputs.    *)
(*                                                                         *)
(* Python strings are TLA+ strings (Len, \o and SubSeq act on them).  The  *)
(* two emoji glyphs of the response texts cannot be written in a TLA+      *)
(* string; they are spelled "[x]" and "[timer]".                           *)
(***************************************************************************)
EXTENDS Integers, Sequences, FiniteSets, TLC

VARIABLES
    conversation_histories, \* dict session_id -> reference to a list object
    heap,                   \* list objects: reference -> sequence of turns
    frame,                  \* per thread: the locals of its call_tool call
    VERBOSE,                \* configuration read at start-up
    successes,              \* calls that returned on the success path since
                            \* the store was last empty
    bp_pc,                  \* build_prompt_with_history harness: position
    bp_history,             \* harness input: history
    bp_query,               \* harness input: current_query
    bp_result               \* harness: the returned string

vars == <<conversation_histories, heap, frame, VERBOSE, successes,
          bp_pc, bp_history, bp_query, bp_result>>

handlerVars == <<conversation_histories, heap, frame, VERBOSE, successes>>
harnessVars == <<bp_pc, bp_history, bp_query, bp_result>>

---------------------------------------------------------------------------
(* Bounds of the model.                                                    *)

\* A new call is started only while fewer than MaxSuccesses calls succeeded.
MaxSuccesses == 4
\* Longest history the harness draws for build_prompt_with_history.
MaxHistory == 7

Threads == {"A", "B"}

---------------------------------------------------------------------------
(* Python string and list primitives.                                      *)

Min(a, b) == IF a < b THEN a ELSE b
Max(a, b) == IF a > b THEN a ELSE b

\* c * n
RECURSIVE Rep(_, _)
Rep(c, n) ==
    IF n <= 0 THEN ""
    ELSE LET half == Rep(c, n \div 2)
         IN  IF n % 2 = 0 THEN half \o half ELSE half \o half \o c

\* str.isspace() on one character
IsSpace(c) == c \in {" ", "\n", "\t", "\r"}

RECURSIVE LStrip(_)
LStrip(s) ==
    IF Len(s) = 0 THEN s
    ELSE IF IsSpace(SubSeq(s, 1, 1)) THEN LStrip(SubSeq(s, 2, Len(s)))
    ELSE s

RECURSIVE RStrip(_)
RStrip(s) ==
    IF Len(s) = 0 THEN s
    ELSE IF IsSpace(SubSeq(s, Len(s), Len(s))) THEN RStrip(SubSeq(s, 1, Len(s) - 1))
    ELSE s

\* str.strip()
Strip(s) == RStrip(LStrip(s))

\* s[:n] for n >= 0
PrefixSlice(s, n) == SubSeq(s, 1, Min(n, Len(s)))

\* a mutant of TailSlice: the first n elements instead of the last n
HeadSliceInstead(s, n) == SubSeq(s, 1, Min(n, Len(s)))

\* a mutant of TailSlice: the slice is one element short
TailSliceOneShort(s, n) == SubSeq(s, Max(Len(s) - n, 0) + 2, Len(s))

\* s[-n:] for n > 0
TailSlice(s, n) == SubSeq(s, Max(Len(s) - n, 0) + 1, Len(s))

\* sep.join(parts)
RECURSIVE Join(_, _)
Join(parts, sep) ==
    IF Len(parts) = 0 THEN ""
    ELSE IF Len(parts) = 1 THEN parts[1]
    ELSE parts[1] \o sep \o Join(Tail(parts), sep)

---------------------------------------------------------------------------
(* build_prompt_with_history                                               *)

max_history_turns == 3
TruncateAt == 200

Turn(role, content) == [role |-> role, content |-> content]

\* a mutant of RenderTurn: every long content is truncated, whatever its role
RenderTurnTruncatingAll(msg) ==
    LET role == IF msg.role = "user" THEN "User" ELSE "Assistant"
        content == IF Len(msg.content) > TruncateAt
                   THEN PrefixSlice(msg.content, TruncateAt) \o "..."
                   ELSE msg.content
    IN  role \o ": " \o content

\* the body of the loop over recent_history: one element of prompt_parts
RenderTurn(msg) ==
    LET role == IF msg.role = "user" THEN "User" ELSE "Assistant"
        content == IF msg.role = "assistant" /\ Len(msg.content) > TruncateAt
                   THEN PrefixSlice(msg.content, TruncateAt) \o "..."
                   ELSE msg.content
    IN  role \o ": " \o content

\* the list prompt_parts as it is when it is joined (history non-empty)
prompt_parts(history, current_query) ==
    LET recent_history == TailSlice(history, max_history_turns * 2)
    IN  <<"Previous conversation:">>
        \o [i \in 1..Len(recent_history) |-> RenderTurn(recent_history[i])]
        \o <<"", "Current question: " \o current_query>>

\* a mutant of build_prompt_with_history: the framing is added to an empty
\* history too
build_prompt_always_framed(history, current_query) ==
    Join(prompt_parts(history, current_query), "\n")

build_prompt_with_history(history, current_query) ==
    IF Len(history) = 0 THEN current_query
    ELSE Join(prompt_parts(history, current_query), "\n")

---------------------------------------------------------------------------
(* The inputs build_prompt_with_history is applied to under SpecCompose.   *)
(* Entry i of a drawn history carries the content Tag(i), distinct for     *)
(* every position, except at most one entry that carries a special         *)
(* content: exactly TruncateAt characters, one more, far more, or a text   *)
(* with line breaks.  Every entry has either role.                         *)

Roles == {"user", "assistant"}

Digit(i) == SubSeq("0123456789", i + 1, i + 1)
Tag(i) == "Text " \o Digit(i)

SpecialContents ==
    { Rep("a", TruncateAt), Rep("b", TruncateAt + 1), Rep("c", 2 * TruncateAt + 5),
      "graph TB\n  A --> B" }

ComposeQueries == {"Final question", "first line\nsecond line"}

DrawnHistories ==
    UNION { { [i \in 1..n |-> Turn(roles[i], IF i = special THEN c ELSE Tag(i))] :
                roles \in [1..n -> Roles], special \in 0..n, c \in SpecialContents } :
            n \in 0..MaxHistory }

HarnessOff ==
    /\ bp_pc = "off"
    /\ bp_history = <<>>
    /\ bp_query = ""
    /\ bp_result = ""

\* one application of build_prompt_with_history(bp_history, bp_query)
Compose ==
    /\ bp_pc = "called"
    /\ bp_result' = build_prompt_with_history(bp_history, bp_query)
    /\ bp_pc' = "returned"
    /\ UNCHANGED <<bp_history, bp_query, handlerVars>>

---------------------------------------------------------------------------
(* Configuration and the values call_tool works on.                        *)

VIEWMAPPER_JAR == "/opt/viewmapper.jar"
CONNECTION == "test://simple_ecommerce"

get_session_id == "default"

TextContent(text) == [type |-> "text", text |-> text]

\* Python values that may be None
PyNone == [t |-> "None"]
PyStr(s) == [t |-> "str", v |-> s]

\* dict.get(key) with the default None; a dict is a function on its keys
DictGet(d, key) == IF key \in DOMAIN d THEN PyStr(d[key]) ELSE PyNone

\* truth value of a str-or-None
Truthy(x) == x.t = "str" /\ Len(x.v) > 0

EmptyDict == [k \in {} |-> ""]

\* what subprocess.run has not produced yet
NoResult == [kind |-> "none"]
Completed(returncode, stdout, stderr) ==
    [kind |-> "completed", returncode |-> returncode, stdout |-> stdout, stderr |-> stderr]
Raised(exc, msg) == [kind |-> "raised", exc |-> exc, msg |-> msg]

\* list references: one per call in flight and one for the stored list
Refs == 1..(Cardinality(Threads) + 1)
NewRef == CHOOSE r \in Refs \ DOMAIN heap : \A q \in Refs \ DOMAIN heap : r <= q

\* the History Store by value: session_id -> sequence of turns
StoreValue == [s \in DOMAIN conversation_histories |-> heap[conversation_histories[s]]]

\* the list objects still referenced by the dict d or by a frame of fr
Collect(h, d, fr) ==
    LET live == {d[s] : s \in DOMAIN d} \cup {fr[t].history : t \in Threads}
    IN  [r \in DOMAIN h \cap live |-> h[r]]

IdleFrame ==
    [pc |-> "idle", name |-> "", arguments |-> EmptyDict, query |-> "",
     history |-> 0, composed_from |-> <<>>, enhanced_query |-> "", cmd |-> <<>>,
     result |-> NoResult,
     response |-> "", ret |-> <<>>, outcome |-> "none",
     entry_store |-> EmptyDict, invocations |-> 0, child |-> "none"]

InitHandler ==
    /\ conversation_histories = EmptyDict
    /\ heap = EmptyDict
    /\ frame = [t \in Threads |-> IdleFrame]
    /\ successes = 0

---------------------------------------------------------------------------
(* The callers' inputs and the external program's outcomes.                *)

ToolNames == {"explore_trino_views", "unknown_tool"}

Arguments ==
    { EmptyDict,
      [k \in {"query"} |-> ""],
      [k \in {"query"} |-> "Show me the diagram"],
      [k \in {"query"} |-> "What are the leaf views?"] }

ProgramOutcomes ==
    { Completed(0, "  graph TB\n  A --> B\n", ""),
      Completed(0, Rep("v", TruncateAt + 1) \o "\n", "warning"),
      Completed(1, "partial output", "  Error: Invalid SQL syntax\n"),
      Completed(1, "partial output", " \n"),
      Completed(1, "partial output", ""),
      Raised("TimeoutExpired", "Command 'java' timed out after 60 seconds"),
      Raised("FileNotFoundError", "No such file or directory: 'java'"),
      Raised("OSError", "Argument list too long") }

---------------------------------------------------------------------------
(* call_tool, one action per step of its body.  frame[t].pc is the         *)
(* position of thread t's call: idle, compose, invoke, classify,           *)
(* append_user, append_assistant, store, done.                             *)

InFlight == {t \in Threads : frame[t].pc # "idle"}

Returning(f, outcome, text) ==
    [f EXCEPT !.pc = "done", !.outcome = outcome, !.ret = <<TextContent(text)>>]

\* a mutant of Validated: only an absent query is rejected, an empty one passes
ValidatedAbsentOnly(f, name, arguments) ==
    LET query == DictGet(arguments, "query")
    IN  IF name # "explore_trino_views"
        THEN Returning(f, "UnknownTool", "[x] Unknown tool: " \o name)
        ELSE IF query = PyNone
        THEN Returning(f, "MissingParameter", "[x] Error: 'query' parameter is required")
        ELSE [f EXCEPT !.pc = "compose", !.query = query.v]

\* a mutant of Validated: the unknown-tool rejection returns an empty list
ValidatedEmptyResult(f, name, arguments) ==
    LET query == DictGet(arguments, "query")
    IN  IF name # "explore_trino_views"
        THEN [f EXCEPT !.pc = "done", !.outcome = "UnknownTool", !.ret = <<>>]
        ELSE IF ~Truthy(query)
        THEN Returning(f, "MissingParameter", "[x] Error: 'query' parameter is required")
        ELSE [f EXCEPT !.pc = "compose", !.query = query.v]

\* a mutant of Validated: the query is looked at before the tool name
ValidatedQueryFirst(f, name, arguments) ==
    LET query == DictGet(arguments, "query")
    IN  IF ~Truthy(query)
        THEN Returning(f, "MissingParameter", "[x] Error: 'query' parameter is required")
        ELSE IF name # "explore_trino_views"
        THEN Returning(f, "UnknownTool", "[x] Unknown tool: " \o name)
        ELSE [f EXCEPT !.pc = "compose", !.query = query.v]

\* the frame after the two checks at the head of call_tool
Validated(f, name, arguments) ==
    LET query == DictGet(arguments, "query")
    IN  IF name # "explore_trino_views"
        THEN Returning(f, "UnknownTool", "[x] Unknown tool: " \o name)
        ELSE IF ~Truthy(query)
        THEN Returning(f, "MissingParameter", "[x] Error: 'query' parameter is required")
        ELSE [f EXCEPT !.pc = "compose", !.query = query.v]

\* call_tool(name, arguments) is entered by thread t and validates
CallTool(t, name, arguments) ==
    /\ frame[t].pc = "idle"
    /\ frame' = [frame EXCEPT ![t] =
            Validated([IdleFrame EXCEPT !.name = name, !.arguments = arguments,
                                        !.entry_store = StoreValue],
                      name, arguments)]
    /\ UNCHANGED <<conversation_histories, heap, VERBOSE, successes, harnessVars>>

\* the argument vector of the Java CLI
Command(enhanced_query) ==
    <<"java", "-jar", VIEWMAPPER_JAR, "run", enhanced_query,
      "--connection", CONNECTION, "--output", "text">>
    \o (IF VERBOSE THEN <<"--verbose">> ELSE <<>>)

\* a mutant of ComposePrompt: the query is handed on without the history
ComposePromptRawQuery(t) ==
    /\ frame[t].pc = "compose"
    /\ LET session_id == get_session_id
           present == session_id \in DOMAIN conversation_histories
           history == IF present THEN conversation_histories[session_id] ELSE NewRef
           items == IF present THEN heap[history] ELSE <<>>
           enhanced_query == frame[t].query
       IN  /\ heap' = [r \in DOMAIN heap \cup {history} |-> IF r = history THEN items ELSE heap[r]]
           /\ frame' = [frame EXCEPT ![t].pc = "invoke",
                                     ![t].history = history,
                                     ![t].composed_from = items,
                                     ![t].enhanced_query = enhanced_query,
                                     ![t].cmd = Command(enhanced_query)]
    /\ UNCHANGED <<conversation_histories, VERBOSE, successes, harnessVars>>

\* a mutant of ComposePrompt: the lookup enters the fresh list in the dict
\* (setdefault instead of get)
ComposePromptSetDefault(t) ==
    /\ frame[t].pc = "compose"
    /\ LET session_id == get_session_id
           present == session_id \in DOMAIN conversation_histories
           history == IF present THEN conversation_histories[session_id] ELSE NewRef
           items == IF present THEN heap[history] ELSE <<>>
           enhanced_query == build_prompt_with_history(items, frame[t].query)
       IN  /\ heap' = [r \in DOMAIN heap \cup {history} |-> IF r = history THEN items ELSE heap[r]]
           /\ conversation_histories' =
                [s \in DOMAIN conversation_histories \cup {session_id} |->
                    IF s = session_id THEN history ELSE conversation_histories[s]]
           /\ frame' = [frame EXCEPT ![t].pc = "invoke",
                                     ![t].history = history,
                                     ![t].composed_from = items,
                                     ![t].enhanced_query = enhanced_query,
                                     ![t].cmd = Command(enhanced_query)]
    /\ UNCHANGED <<VERBOSE, successes, harnessVars>>

\* session lookup, prompt and command
ComposePrompt(t) ==
    /\ frame[t].pc = "compose"
    /\ LET session_id == get_session_id
           present == session_id \in DOMAIN conversation_histories
           history == IF present THEN conversation_histories[session_id] ELSE NewRef
           items == IF present THEN heap[history] ELSE <<>>
           enhanced_query == build_prompt_with_history(items, frame[t].query)
       IN  /\ heap' = [r \in DOMAIN heap \cup {history} |-> IF r = history THEN items ELSE heap[r]]
           /\ frame' = [frame EXCEPT ![t].pc = "invoke",
                                     ![t].history = history,
                                     ![t].composed_from = items,
                                     ![t].enhanced_query = enhanced_query,
                                     ![t].cmd = Command(enhanced_query)]
    /\ UNCHANGED <<conversation_histories, VERBOSE, successes, harnessVars>>

\* a mutant of ChildAfter: on expiry of the timeout the child is left running
ChildAfterNoKill(outcome) ==
    IF outcome.kind = "completed" THEN "exited"
    ELSE IF outcome.exc = "TimeoutExpired" THEN "running"
    ELSE "none"

\* the child process when subprocess.run hands control back: run() waits for
\* a child that ends by itself, kills and reaps it when the timeout expires,
\* and has started none when launching fails
ChildAfter(outcome) ==
    IF outcome.kind = "completed" THEN "exited"
    ELSE IF outcome.exc = "TimeoutExpired" THEN "killed"
    ELSE "none"

\* a mutant of Invoke: without the timeout a run that does not end blocks
\* the call for ever
InvokeWithoutTimeout(t, outcome) ==
    /\ frame[t].pc = "invoke"
    /\ frame' = [frame EXCEPT ![t].pc = IF outcome.kind = "raised" /\ outcome.exc = "TimeoutExpired"
                                        THEN "blocked" ELSE "classify",
                              ![t].result = outcome,
                              ![t].invocations = @ + 1,
                              ![t].child = "running"]
    /\ UNCHANGED <<conversation_histories, heap, VERBOSE, successes, harnessVars>>

\* subprocess.run(cmd, ..., timeout=60) returns or raises
Invoke(t, outcome) ==
    /\ frame[t].pc = "invoke"
    /\ frame' = [frame EXCEPT ![t].pc = "classify",
                              ![t].result = outcome,
                              ![t].invocations = @ + 1,
                              ![t].child = ChildAfter(outcome)]
    /\ UNCHANGED <<conversation_histories, heap, VERBOSE, successes, harnessVars>>

\* a mutant of Classified: no `except Exception` clause, any other exception
\* leaves call_tool
ClassifiedWithoutCatchAll(f) ==
    LET result == f.result
    IN  IF result.kind = "raised"
        THEN IF result.exc = "TimeoutExpired"
             THEN Returning(f, "Timeout",
                    "[timer] Request timed out after 60 seconds. Try a simpler query or smaller dataset.")
             ELSE IF result.exc = "FileNotFoundError"
             THEN Returning(f, "ProgramNotFound",
                    "[x] Error: Java or JAR file not found. Check VIEWMAPPER_JAR=" \o VIEWMAPPER_JAR)
             ELSE [f EXCEPT !.pc = "propagated"]
        ELSE IF result.returncode # 0
        THEN LET stripped == Strip(result.stderr)
                 error_msg == IF Len(stripped) > 0 THEN stripped ELSE "Unknown error"
             IN  Returning(f, "ProgramError", "[x] ViewMapper Error:\n" \o error_msg)
        ELSE [f EXCEPT !.pc = "append_user", !.response = Strip(result.stdout)]

\* a mutant of Classified: a failed run with nothing on standard error is
\* reported with its standard output
ClassifiedErrorFromStdout(f) ==
    LET result == f.result
    IN  IF result.kind = "raised"
        THEN IF result.exc = "TimeoutExpired"
             THEN Returning(f, "Timeout",
                    "[timer] Request timed out after 60 seconds. Try a simpler query or smaller dataset.")
             ELSE IF result.exc = "FileNotFoundError"
             THEN Returning(f, "ProgramNotFound",
                    "[x] Error: Java or JAR file not found. Check VIEWMAPPER_JAR=" \o VIEWMAPPER_JAR)
             ELSE Returning(f, "UnexpectedFault", "[x] Unexpected error: " \o result.msg)
        ELSE IF result.returncode # 0
        THEN LET stripped == Strip(result.stderr)
                 error_msg == IF Len(stripped) > 0 THEN stripped ELSE Strip(result.stdout)
             IN  Returning(f, "ProgramError", "[x] ViewMapper Error:\n" \o error_msg)
        ELSE [f EXCEPT !.pc = "append_user", !.response = Strip(result.stdout)]

\* the frame after the return-code test and the except clauses
Classified(f) ==
    LET result == f.result
    IN  IF result.kind = "raised"
        THEN IF result.exc = "TimeoutExpired"
             THEN Returning(f, "Timeout",
                    "[timer] Request timed out after 60 seconds. Try a simpler query or smaller dataset.")
             ELSE IF result.exc = "FileNotFoundError"
             THEN Returning(f, "ProgramNotFound",
                    "[x] Error: Java or JAR file not found. Check VIEWMAPPER_JAR=" \o VIEWMAPPER_JAR)
             ELSE Returning(f, "UnexpectedFault", "[x] Unexpected error: " \o result.msg)
        ELSE IF result.returncode # 0
        THEN LET stripped == Strip(result.stderr)
                 error_msg == IF Len(stripped) > 0 THEN stripped ELSE "Unknown error"
             IN  Returning(f, "ProgramError", "[x] ViewMapper Error:\n" \o error_msg)
        ELSE [f EXCEPT !.pc = "append_user", !.response = Strip(result.stdout)]

\* a mutant of Classify: the query is recorded before the outcome is looked at
ClassifyRecordingQuery(t) ==
    /\ frame[t].pc = "classify"
    /\ frame' = [frame EXCEPT ![t] = Classified(frame[t])]
    /\ heap' = [heap EXCEPT ![frame[t].history] = Append(@, Turn("user", frame[t].query))]
    /\ conversation_histories' =
            [s \in DOMAIN conversation_histories \cup {get_session_id} |->
                IF s = get_session_id THEN frame[t].history ELSE conversation_histories[s]]
    /\ UNCHANGED <<VERBOSE, successes, harnessVars>>

\* a mutant of Classify: a run that exits non-zero is tried once more
ClassifyRetrying(t) ==
    /\ frame[t].pc = "classify"
    /\ frame' = [frame EXCEPT ![t] =
            IF @.result.kind = "completed" /\ @.result.returncode # 0 /\ @.invocations < 2
            THEN [@ EXCEPT !.pc = "invoke"]
            ELSE Classified(@)]
    /\ UNCHANGED <<conversation_histories, heap, VERBOSE, successes, harnessVars>>

Classify(t) ==
    /\ frame[t].pc = "classify"
    /\ frame' = [frame EXCEPT ![t] = Classified(frame[t])]
    /\ UNCHANGED <<conversation_histories, heap, VERBOSE, successes, harnessVars>>

\* a mutant of ListAppend: the list keeps its six most recent items only
ListAppendBounded(h, r, item) ==
    LET grown == Append(h[r], item)
    IN  [h EXCEPT ![r] = SubSeq(grown, Max(Len(grown) - 6, 0) + 1, Len(grown))]

\* list.append on the list object r
ListAppend(h, r, item) == [h EXCEPT ![r] = Append(@, item)]

\* a mutant of AppendUser: the augmented prompt is recorded instead of the query
AppendUserEnhanced(t) ==
    /\ frame[t].pc = "append_user"
    /\ heap' = ListAppend(heap, frame[t].history, Turn("user", frame[t].enhanced_query))
    /\ frame' = [frame EXCEPT ![t].pc = "append_assistant"]
    /\ UNCHANGED <<conversation_histories, VERBOSE, successes, harnessVars>>

\* history.append({"role": "user", "content": query})
AppendUser(t) ==
    /\ frame[t].pc = "append_user"
    /\ heap' = ListAppend(heap, frame[t].history, Turn("user", frame[t].query))
    /\ frame' = [frame EXCEPT ![t].pc = "append_assistant"]
    /\ UNCHANGED <<conversation_histories, VERBOSE, successes, harnessVars>>

\* a mutant of AppendAssistant: the assistant turn is not appended
AppendAssistantSkipped(t) ==
    /\ frame[t].pc = "append_assistant"
    /\ frame' = [frame EXCEPT ![t].pc = "store"]
    /\ UNCHANGED <<conversation_histories, heap, VERBOSE, successes, harnessVars>>

\* history.append({"role": "assistant", "content": response})
AppendAssistant(t) ==
    /\ frame[t].pc = "append_assistant"
    /\ heap' = ListAppend(heap, frame[t].history, Turn("assistant", frame[t].response))
    /\ frame' = [frame EXCEPT ![t].pc = "store"]
    /\ UNCHANGED <<conversation_histories, VERBOSE, successes, harnessVars>>

\* conversation_histories[session_id] = history; return [TextContent(response)]
StoreHistory(t) ==
    /\ frame[t].pc = "store"
    /\ LET session_id == get_session_id
           d == [s \in DOMAIN conversation_histories \cup {session_id} |->
                    IF s = session_id THEN frame[t].history ELSE conversation_histories[s]]
           fr == [frame EXCEPT ![t] = Returning(@, "Success", @.response)]
       IN  /\ conversation_histories' = d
           /\ frame' = fr
           /\ heap' = Collect(heap, d, fr)
    /\ successes' = successes + 1
    /\ UNCHANGED <<VERBOSE, harnessVars>>

\* the caller has taken the result; the locals of the call are dropped
Return(t) ==
    /\ frame[t].pc = "done"
    /\ LET fr == [frame EXCEPT ![t] = IdleFrame]
       IN  /\ frame' = fr
           /\ heap' = Collect(heap, conversation_histories, fr)
    /\ UNCHANGED <<conversation_histories, VERBOSE, successes, harnessVars>>

\* the steps of a call once it has been entered
Step(t) ==
    \/ ComposePrompt(t)
    \/ \E outcome \in ProgramOutcomes : Invoke(t, outcome)
    \/ Classify(t)
    \/ AppendUser(t)
    \/ AppendAssistant(t)
    \/ StoreHistory(t)
    \/ Return(t)

---------------------------------------------------------------------------
(* Spec: the calls arrive serially, one call in flight at a time.          *)

Init ==
    /\ InitHandler
    /\ VERBOSE \in BOOLEAN
    /\ HarnessOff

SerialCall(t) ==
    /\ InFlight = {}
    /\ successes < MaxSuccesses
    /\ \E name \in ToolNames, arguments \in Arguments : CallTool(t, name, arguments)

\* conversation_histories.clear(), between two calls: the store is empty again
ClearHistories ==
    /\ InFlight = {}
    /\ DOMAIN conversation_histories # {}
    /\ conversation_histories' = EmptyDict
    /\ heap' = Collect(heap, EmptyDict, frame)
    /\ successes' = 0
    /\ UNCHANGED <<frame, VERBOSE, harnessVars>>

Next ==
    \/ \E t \in Threads : SerialCall(t) \/ Step(t)
    \/ ClearHistories

Spec == Init /\ [][Next]_vars

(* SpecLive: the serial calls of Spec, with the progress a call makes once *)
(* it has been entered.  The body of call_tool holds no await and no loop: *)
(* the event loop runs it statement after statement until it returns, and  *)
(* its one blocking statement, subprocess.run(..., timeout=60), hands      *)
(* control back when the child ends or the timeout expires.  Nothing       *)
(* obliges a client to make a call or to clear the store.                  *)
Fairness == \A t \in Threads : WF_vars(Step(t))

SpecLive == Init /\ [][Next]_vars /\ Fairness

---------------------------------------------------------------------------
(* SpecConcurrent: call_tool is entered by several threads at once.  Its    *)
(* body takes no lock and reads and writes the module-level dict and the   *)
(* list it holds statement by statement, so each statement is one step and *)
(* the threads interleave freely; subprocess.run blocks only its own       *)
(* thread.                                                                 *)

MaxConcurrentSuccesses == 3

ConcurrentCall(t) ==
    /\ successes + Cardinality(InFlight) < MaxConcurrentSuccesses
    /\ \E name \in ToolNames, arguments \in Arguments : CallTool(t, name, arguments)

NextConcurrent == \E t \in Threads : ConcurrentCall(t) \/ Step(t)

SpecConcurrent == Init /\ [][NextConcurrent]_vars

---------------------------------------------------------------------------
(* SpecCompose: build_prompt_with_history applied to every drawn input.    *)

InitCompose ==
    /\ InitHandler
    /\ VERBOSE = FALSE
    /\ bp_pc = "called"
    /\ bp_history \in DrawnHistories
    /\ bp_query \in ComposeQueries
    /\ bp_result = ""

NextCompose == Compose

SpecCompose == InitCompose /\ [][NextCompose]_vars

---------------------------------------------------------------------------
(* Vocabulary of the properties.                                           *)

\* no call is inside the body of call_tool
Quiescent == \A t \in Threads : frame[t].pc \in {"idle", "done"}

\* the session's history, empty when the store has no entry for it
HistoryOf(store) == IF "default" \in DOMAIN store THEN store["default"] ELSE <<>>

\* the call of frame f was made without a usable query
QueryMissing(f) == "query" \notin DOMAIN f.arguments \/ f.arguments["query"] = ""

\* the external program ended the call of frame f without success
InvocationFailed(f) ==
    \/ f.result.kind = "raised"
    \/ f.result.kind = "completed" /\ f.result.returncode # 0

InvocationSucceeded(f) == f.result.kind = "completed" /\ f.result.returncode = 0

\* t is s without its leading and trailing whitespace
IsTrimOf(t, s) ==
    /\ Len(t) > 0 => ~IsSpace(SubSeq(t, 1, 1)) /\ ~IsSpace(SubSeq(t, Len(t), Len(t)))
    /\ \E a \in 0..(Len(s) - Len(t)) :
          /\ SubSeq(s, a + 1, a + Len(t)) = t
          /\ \A k \in (1..a) \cup ((a + Len(t) + 1)..Len(s)) : IsSpace(SubSeq(s, k, k))

---------------------------------------------------------------------------
(* C1: starting from an empty store, whenever no call is inside call_tool  *)
(* (after any sequence of rejected, failed and successful calls) the       *)
(* session's history has an even number of entries.                        *)
C1_EvenHistory ==
    Quiescent => \A s \in DOMAIN StoreValue : Len(StoreValue[s]) % 2 = 0

C1_Witness ==
    \E t \in Threads :
        /\ frame[t].pc = "done"
        /\ InvocationFailed(frame[t])
        /\ Len(HistoryOf(StoreValue)) = 4

(* C2: a call that ended as ProgramError, Timeout, ProgramNotFound or      *)
(* UnexpectedFault leaves the History Store exactly as it was when the     *)
(* call was entered.                                                       *)
C2_FailureLeavesStore ==
    \A t \in Threads :
        frame[t].pc = "done" /\ InvocationFailed(frame[t])
            => /\ StoreValue = frame[t].entry_store
               /\ frame[t].outcome \in
                    {"ProgramError", "Timeout", "ProgramNotFound", "UnexpectedFault"}

C2_Witness ==
    \E t \in Threads :
        /\ frame[t].pc = "done"
        /\ frame[t].outcome = "Timeout"
        /\ Len(HistoryOf(StoreValue)) = 2

(* C3: a Success call appends exactly two turns: the user turn with the    *)
(* original query argument, then the assistant turn with the returned      *)
(* response text, which is the trimmed standard output; the augmented      *)
(* prompt is not what is stored.                                           *)
C3_SuccessAppendsPair ==
    \A t \in Threads :
        frame[t].pc = "done" /\ InvocationSucceeded(frame[t])
            => LET f == frame[t]
                   before == HistoryOf(f.entry_store)
                   after == HistoryOf(StoreValue)
               IN  /\ Len(f.ret) = 1
                   /\ after = before \o <<Turn("user", f.arguments["query"]),
                                           Turn("assistant", f.ret[1].text)>>
                   /\ IsTrimOf(f.ret[1].text, f.result.stdout)
                   /\ Len(before) > 0 => after[Len(before) + 1].content # f.cmd[5]

C3_Witness ==
    \E t \in Threads :
        /\ frame[t].pc = "done"
        /\ InvocationSucceeded(frame[t])
        /\ Len(HistoryOf(frame[t].entry_store)) = 2
        /\ frame[t].ret[1].text # frame[t].result.stdout

(* C4: a call to the supported tool whose query is absent or empty returns *)
(* the missing-parameter response, never invokes the external program and  *)
(* leaves the History Store unchanged.                                     *)
C4_MissingQueryRejected ==
    \A t \in Threads :
        LET f == frame[t]
        IN  f.pc # "idle" /\ f.name = "explore_trino_views" /\ QueryMissing(f)
                => /\ f.pc = "done"
                   /\ f.ret = <<TextContent("[x] Error: 'query' parameter is required")>>
                   /\ f.invocations = 0
                   /\ f.cmd = <<>>
                   /\ StoreValue = f.entry_store

C4_Witness ==
    \E t \in Threads :
        /\ frame[t].pc = "done"
        /\ frame[t].name = "explore_trino_views"
        /\ "query" \in DOMAIN frame[t].arguments
        /\ frame[t].arguments["query"] = ""
        /\ Len(HistoryOf(StoreValue)) = 2

\* the outcome class the inputs and the program's outcome put a call in
CauseClass(f) ==
    IF f.name # "explore_trino_views" THEN "UnknownTool"
    ELSE IF QueryMissing(f) THEN "MissingParameter"
    ELSE IF f.result.kind = "completed"
    THEN (IF f.result.returncode = 0 THEN "Success" ELSE "ProgramError")
    ELSE IF f.result.exc = "TimeoutExpired" THEN "Timeout"
    ELSE IF f.result.exc = "FileNotFoundError" THEN "ProgramNotFound"
    ELSE "UnexpectedFault"

(* C5: every call that has returned, whatever its outcome class, returned  *)
(* a list of exactly one text unit, and was classified into the one class  *)
(* its inputs and the program's outcome determine.                         *)
C5_OneTextUnit ==
    \A t \in Threads :
        LET f == frame[t]
        IN  /\ f.pc = "done"
                => /\ Len(f.ret) = 1
                   /\ f.ret[1].type = "text"
                   /\ f.outcome = CauseClass(f)
            /\ f.pc # "done" => f.ret = <<>> /\ f.outcome = "none"

C5_Witness ==
    \E t \in Threads :
        /\ frame[t].pc = "done"
        /\ frame[t].outcome = "UnknownTool"
        /\ frame[t].ret[1].text = "[x] Unknown tool: unknown_tool"

---------------------------------------------------------------------------
(* Vocabulary of the properties of build_prompt_with_history.              *)

HasLineBreak(s) == \E i \in 1..Len(s) : SubSeq(s, i, i) = "\n"

\* s.split("\n")
RECURSIVE SplitLines(_)
SplitLines(s) ==
    IF ~HasLineBreak(s) THEN <<s>>
    ELSE LET i == CHOOSE j \in 1..Len(s) :
                    /\ SubSeq(s, j, j) = "\n"
                    /\ \A k \in 1..(j - 1) : SubSeq(s, k, k) # "\n"
         IN  <<SubSeq(s, 1, i - 1)>> \o SplitLines(SubSeq(s, i + 1, Len(s)))

\* the most recent 6 entries of h, all of them when there are fewer
Recent6(h) ==
    LET n == Len(h)
        k == IF n < 6 THEN n ELSE 6
    IN  [i \in 1..k |-> h[n - k + i]]

\* the text one entry is expected to be rendered as
ExpectedText(m) ==
    IF m.role = "user" THEN "User: " \o m.content
    ELSE IF Len(m.content) > 200
    THEN "Assistant: " \o SubSeq(m.content, 1, 200) \o "..."
    ELSE "Assistant: " \o m.content

\* the expected texts of w[i..], each followed by a line break
RECURSIVE ExpectedBody(_, _)
ExpectedBody(w, i) ==
    IF i > Len(w) THEN "" ELSE ExpectedText(w[i]) \o "\n" \o ExpectedBody(w, i + 1)

\* where the text of entry i of the window w starts in the output
RECURSIVE OffsetOf(_, _)
OffsetOf(w, i) ==
    IF i = 1 THEN Len("Previous conversation:") + 1
    ELSE OffsetOf(w, i - 1) + Len(ExpectedText(w[i - 1])) + 1

\* the output read line by line: header, one line per entry, blank, footer
LineByLine(result, w, query) ==
    LET lines == SplitLines(result)
        k == Len(w)
    IN  /\ Len(lines) >= k + 3
        /\ lines[1] = "Previous conversation:"
        /\ \A i \in 1..k : lines[i + 1] = ExpectedText(w[i])
        /\ lines[k + 2] = ""
        /\ Join(SubSeq(lines, k + 3, Len(lines)), "\n") = "Current question: " \o query

---------------------------------------------------------------------------
(* C6: with an empty history build_prompt_with_history returns exactly the *)
(* query, with no framing text.                                            *)
C6_EmptyHistoryIdentity ==
    bp_pc = "returned" /\ Len(bp_history) = 0 => bp_result = bp_query

C6_Witness ==
    /\ bp_pc = "returned"
    /\ Len(bp_history) = 0
    /\ bp_query = "first line\nsecond line"
    /\ bp_result = bp_query

(* C7, as stated: for a non-empty history the output is the header line,   *)
(* then exactly one line per entry of the most recent 6, in order, then    *)
(* the blank line and the footer.                                          *)
C7_OneLinePerEntry ==
    bp_pc = "returned" /\ Len(bp_history) > 0
        => LineByLine(bp_result, Recent6(bp_history), bp_query)

(* C7, amended: for a non-empty history the output is the header line,     *)
(* then the text "<Role>: <content>" of each of the most recent 6 entries  *)
(* (all when fewer), in order and each followed by a line break, then the  *)
(* blank line and the footer; nothing is rendered for an older entry.  An  *)
(* entry is one line of the output when no content of the window holds a   *)
(* line break.                                                             *)
C7_WindowRendered ==
    bp_pc = "returned" /\ Len(bp_history) > 0
        => LET w == Recent6(bp_history)
           IN  /\ bp_result = "Previous conversation:\n" \o ExpectedBody(w, 1)
                               \o "\n" \o "Current question: " \o bp_query
               /\ (\A i \in 1..Len(w) : ~HasLineBreak(w[i].content))
                    => LineByLine(bp_result, w, bp_query)

C7_Witness ==
    /\ bp_pc = "returned"
    /\ Len(bp_history) > 6
    /\ bp_history[1].content = "graph TB\n  A --> B"
    /\ \A i \in 1..Len(Recent6(bp_history)) : ~HasLineBreak(Recent6(bp_history)[i].content)
    /\ LineByLine(bp_result, Recent6(bp_history), bp_query)

(* C8: in the output every rendered assistant turn longer than 200         *)
(* characters shows its first 200 characters followed by "...", an         *)
(* assistant turn of at most 200 characters is shown in full, and a user   *)
(* turn of any length is shown in full.                                    *)
C8_AssistantTruncated ==
    bp_pc = "returned" /\ Len(bp_history) > 0
        => LET w == Recent6(bp_history)
           IN  \A i \in 1..Len(w) :
                 LET c == w[i].content
                     off == OffsetOf(w, i)
                     shown == IF w[i].role = "user" THEN "User: " \o c
                              ELSE IF Len(c) > 200
                              THEN "Assistant: " \o SubSeq(c, 1, 200) \o "..."
                              ELSE "Assistant: " \o c
                 IN  /\ SubSeq(bp_result, off + 1, off + Len(shown) + 1) = shown \o "\n"
                     /\ w[i].role = "assistant" /\ Len(c) > 200
                            => Len(shown) = Len("Assistant: ") + 203

C8_Witness ==
    /\ bp_pc = "returned"
    /\ Len(bp_history) > 6
    /\ \E i \in 2..Len(bp_history) :
            /\ bp_history[i].role = "assistant"
            /\ Len(bp_history[i].content) = 201
            /\ bp_history[i - 1].role = "user"

---------------------------------------------------------------------------
(* Vocabulary of the properties of concurrent calls.                       *)

\* h is made of user/assistant pairs: a user turn, then its assistant turn
WellPaired(h) ==
    /\ Len(h) % 2 = 0
    /\ \A i \in 1..Len(h) : h[i].role = (IF i % 2 = 1 THEN "user" ELSE "assistant")

\* the calls of t and u were both entered before either had recorded, and
\* both have returned on the success path
BothSucceededConcurrently(t, u) ==
    /\ t # u
    /\ frame[t].pc = "done" /\ frame[t].outcome = "Success"
    /\ frame[u].pc = "done" /\ frame[u].outcome = "Success"
    /\ frame[t].entry_store = frame[u].entry_store

\* both turns of the call of frame f are in h
HoldsTurnsOf(h, f) ==
    /\ \E i \in 1..Len(h) : h[i] = Turn("user", f.query)
    /\ \E i \in 1..Len(h) : h[i] = Turn("assistant", f.response)

(* C9: when two calls for the session run concurrently and both end in     *)
(* Success, the history afterwards holds the turns of both calls: it is    *)
(* four entries longer than when they were entered, also when the store    *)
(* had no entry for the session.                                           *)
C9_NoLostUpdate ==
    \A t, u \in Threads :
        BothSucceededConcurrently(t, u)
            => LET after == HistoryOf(StoreValue)
               IN  /\ Len(after) = Len(HistoryOf(frame[t].entry_store)) + 4
                   /\ HoldsTurnsOf(after, frame[t])
                   /\ HoldsTurnsOf(after, frame[u])

(* C10: under concurrent calls the two appends of a call are atomic: the   *)
(* history a call reads to compose its prompt never holds a user turn      *)
(* without its assistant turn, and once every call has returned the stored *)
(* history is a sequence of user/assistant pairs, no pair split by the     *)
(* turns of another call.                                                  *)
C10_PairsAtomic ==
    /\ \A t \in Threads : WellPaired(frame[t].composed_from)
    /\ Quiescent => \A s \in DOMAIN StoreValue : WellPaired(StoreValue[s])

---------------------------------------------------------------------------
(* Vocabulary of the properties of the call lifecycle.                     *)

\* the call of frame f has passed both validation checks
PassedValidation(f) == f.name = "explore_trino_views" /\ ~QueryMissing(f)

\* the response of frame f is exactly one text unit with this text
RespondedWith(f, text) == f.ret = <<[type |-> "text", text |-> text]>>

(* C11: an error raised while a call is served (the program cannot be      *)
(* started, runs out of time, or any other exception of subprocess.run) is *)
(* caught inside call_tool and turned into a text response; no call ever   *)
(* ends with an exception leaving call_tool, and a call that has returned  *)
(* can be followed by the next one.                                        *)
C11_ErrorsBecomeResponses ==
    \A t \in Threads :
        LET f == frame[t]
        IN  /\ f.pc \in {"idle", "compose", "invoke", "classify", "append_user",
                          "append_assistant", "store", "done"}
            /\ f.result.kind = "raised" /\ f.pc # "classify"
                    => /\ f.pc = "done"
                       /\ Len(f.ret) = 1
                       /\ f.ret[1].type = "text"
                       /\ f.result.exc \notin {"TimeoutExpired", "FileNotFoundError"}
                            => f.ret[1].text = "[x] Unexpected error: " \o f.result.msg
            /\ f.pc = "done" => ENABLED Return(t)

C11_Witness ==
    \E t \in Threads :
        /\ frame[t].pc = "done"
        /\ frame[t].result.kind = "raised"
        /\ frame[t].result.exc = "OSError"
        /\ frame[t].ret[1].text = "[x] Unexpected error: Argument list too long"
        /\ Len(HistoryOf(StoreValue)) = 2

(* C12: for every call that passed validation the argument after "run" is  *)
(* the prompt composed from the session's history as it was when the call  *)
(* was entered and the query: the query itself when that history is empty, *)
(* the "Previous conversation:" framing of its most recent entries         *)
(* followed by the query otherwise.                                        *)
C12_PromptArgument ==
    \A t \in Threads :
        LET f == frame[t]
        IN  f.pc \notin {"idle", "compose"} /\ PassedValidation(f)
                => LET h == HistoryOf(f.entry_store)
                       q == f.arguments["query"]
                   IN  /\ Len(f.cmd) >= 5
                       /\ f.cmd[4] = "run"
                       /\ f.cmd[5] = IF Len(h) = 0 THEN q
                                     ELSE "Previous conversation:\n" \o ExpectedBody(Recent6(h), 1)
                                          \o "\n" \o "Current question: " \o q

C12_Witness ==
    \E t \in Threads :
        /\ frame[t].pc = "classify"
        /\ Len(HistoryOf(frame[t].entry_store)) = 6
        /\ Len(frame[t].cmd) = 10
        /\ frame[t].cmd[5] # frame[t].arguments["query"]

(* C13: the tool name is checked before the query: a call whose name is    *)
(* not explore_trino_views returns the unknown-tool response whatever its  *)
(* arguments, never invokes the program and leaves the store unchanged.    *)
C13_UnknownToolFirst ==
    \A t \in Threads :
        LET f == frame[t]
        IN  f.pc # "idle" /\ f.name # "explore_trino_views"
                => /\ f.pc = "done"
                   /\ RespondedWith(f, "[x] Unknown tool: " \o f.name)
                   /\ f.invocations = 0
                   /\ f.cmd = <<>>
                   /\ StoreValue = f.entry_store

C13_Witness ==
    \E t \in Threads :
        /\ frame[t].pc = "done"
        /\ frame[t].name = "unknown_tool"
        /\ QueryMissing(frame[t])
        /\ RespondedWith(frame[t], "[x] Unknown tool: unknown_tool")
        /\ Len(HistoryOf(StoreValue)) = 2

\* every character of s is whitespace (s may be empty)
IsBlank(s) == \A k \in 1..Len(s) : IsSpace(SubSeq(s, k, k))

(* C14: when the program exits non-zero the response is the error marker   *)
(* followed by the trimmed standard error, or by "Unknown error" when the  *)
(* standard error is empty (nothing is left of it after trimming); the     *)
(* standard output of the failed run is not used.                          *)
C14_ProgramErrorBody ==
    \A t \in Threads :
        LET f == frame[t]
            marker == "[x] ViewMapper Error:\n"
        IN  f.result.kind = "completed" /\ f.result.returncode # 0 /\ f.pc # "classify"
                => /\ f.pc = "done"
                   /\ Len(f.ret) = 1
                   /\ LET text == f.ret[1].text
                           body == SubSeq(text, Len(marker) + 1, Len(text))
                       IN  /\ Len(text) >= Len(marker)
                           /\ SubSeq(text, 1, Len(marker)) = marker
                           /\ IF IsBlank(f.result.stderr)
                              THEN body = "Unknown error"
                              ELSE Len(body) > 0 /\ IsTrimOf(body, f.result.stderr)

C14_Witness ==
    \E t \in Threads :
        /\ frame[t].pc = "done"
        /\ frame[t].result.kind = "completed"
        /\ frame[t].result.returncode = 1
        /\ frame[t].result.stderr = ""
        /\ frame[t].result.stdout = "partial output"
        /\ RespondedWith(frame[t], "[x] ViewMapper Error:\nUnknown error")

(* C15: there are no retries: a call invokes the program at most once,     *)
(* not at all before or without passing validation, exactly once when it   *)
(* passed, and once it has been classified and has returned it neither     *)
(* invokes nor classifies again.                                           *)
C15_NoRetries ==
    \A t \in Threads :
        LET f == frame[t]
        IN  /\ f.invocations <= 1
            /\ f.pc \in {"idle", "compose", "invoke"} => f.invocations = 0
            /\ f.pc \in {"classify", "append_user", "append_assistant", "store"}
                    => f.invocations = 1
            /\ f.pc = "done"
                    => /\ f.invocations = (IF PassedValidation(f) THEN 1 ELSE 0)
                       /\ ~ENABLED (\E outcome \in ProgramOutcomes : Invoke(t, outcome))
                       /\ ~ENABLED Classify(t)

C15_Witness ==
    \E t \in Threads :
        /\ frame[t].pc = "done"
        /\ frame[t].outcome = "ProgramError"
        /\ frame[t].invocations = 1

---------------------------------------------------------------------------
\* the stages a call may move to from the stage pc (idle: no call)
StagesAfter(pc) ==
    CASE pc = "idle" -> {"compose", "done"}
      [] pc = "compose" -> {"invoke"}
      [] pc = "invoke" -> {"classify"}
      [] pc = "classify" -> {"append_user", "done"}
      [] pc = "append_user" -> {"append_assistant"}
      [] pc = "append_assistant" -> {"store"}
      [] pc = "store" -> {"done"}
      [] pc = "done" -> {"idle"}
      [] OTHER -> {}

\* every call moves from one stage to a following one, and records only
\* after a run that succeeded
ForwardOnly ==
    \A t \in Threads :
        /\ frame'[t].pc # frame[t].pc => frame'[t].pc \in StagesAfter(frame[t].pc)
        /\ frame'[t].pc \in {"append_user", "append_assistant", "store"}
                => InvocationSucceeded(frame'[t])

(* C16: every call that has been dispatched eventually reaches Done with   *)
(* its response; it moves only forward through validating, composing,      *)
(* invoking, classifying and, after a success only, recording; the         *)
(* invocation, bounded by the timeout, is always left.                     *)
C16_EventuallyDone ==
    /\ \A t \in Threads :
            (frame[t].pc \notin {"idle", "done"})
                ~> (frame[t].pc = "done" /\ Len(frame[t].ret) = 1)
    /\ \A t \in Threads : (frame[t].pc = "invoke") ~> (frame[t].pc = "classify")
    /\ [][ForwardOnly]_vars

C16_Witness ==
    \E t \in Threads :
        /\ frame[t].pc = "done"
        /\ frame[t].invocations = 1
        /\ frame[t].result.kind = "raised"
        /\ frame[t].result.exc = "TimeoutExpired"
        /\ Len(frame[t].ret) = 1

TimeoutText ==
    "[timer] Request timed out after 60 seconds. Try a simpler query or smaller dataset."

(* C17: when the timeout expires the child process is terminated before    *)
(* the call is classified: whenever a call is about to classify an expired *)
(* timeout or has returned the timeout response, the child it started is   *)
(* not running any more, and the store is as the call found it.            *)
C17_TimeoutKillsChild ==
    \A t \in Threads :
        LET f == frame[t]
            expired == f.result.kind = "raised" /\ f.result.exc = "TimeoutExpired"
        IN  /\ f.pc = "classify" /\ expired => f.child = "killed"
            /\ f.pc = "done" /\ RespondedWith(f, TimeoutText)
                    => /\ expired
                       /\ f.child = "killed"
                       /\ StoreValue = f.entry_store
            /\ f.pc = "done" /\ expired => RespondedWith(f, TimeoutText)

C17_Witness ==
    \E t \in Threads :
        /\ frame[t].pc = "done"
        /\ RespondedWith(frame[t], TimeoutText)
        /\ frame[t].child = "killed"
        /\ Len(HistoryOf(frame[t].entry_store)) = 4
        /\ StoreValue = frame[t].entry_store

\* a is an initial segment of b
IsPrefix(a, b) == Len(a) <= Len(b) /\ \A i \in 1..Len(a) : a[i] = b[i]

(* C18: under serial calls the history only grows at its end: from the     *)
(* entry of a call on, the history the call found is a prefix of the       *)
(* stored history, and between calls the stored history holds exactly two  *)
(* entries per successful call made since the store was empty, whatever    *)
(* failed or rejected calls lie in between.                                *)
C18_AppendOnly ==
    /\ \A t \in Threads :
            frame[t].pc # "idle"
                => IsPrefix(HistoryOf(frame[t].entry_store), HistoryOf(StoreValue))
    /\ Quiescent => Len(HistoryOf(StoreValue)) = 2 * successes

C18_Witness ==
    \E t \in Threads :
        /\ frame[t].pc = "done"
        /\ frame[t].outcome = "Success"
        /\ Len(HistoryOf(frame[t].entry_store)) = 6
        /\ Len(HistoryOf(StoreValue)) = 8
        /\ successes = 4

\* the role the entry at position i of a history is expected to have
RoleAt(i) == IF i % 2 = 1 THEN "user" ELSE "assistant"

C20_SingleSession ==
    /\ DOMAIN conversation_histories \in {{}, {"default"}}
    /\ "default" \in DOMAIN conversation_histories <=> successes > 0
    /\ \A t \in Threads :
            frame[t].pc # "idle" /\ frame[t].outcome # "Success"
                => DOMAIN conversation_histories = DOMAIN frame[t].entry_store

C20_Witness ==
    \E t \in Threads :
        /\ frame[t].pc = "done"
        /\ frame[t].outcome = "ProgramNotFound"
        /\ DOMAIN conversation_histories = {}
        /\ successes = 0

====
